---- MODULE Spec2Model ----
(***************************************************************************)
(* Nested Open Editors: the tree data provider (NestedOpenEditorsProvider) *)
(* and the synchronisation code of activate().                             *)
(*                                                                         *)
(* A path is the sequence of the characters of its fsPath, so that         *)
(* String.startsWith, path.dirname and localeCompare are computed on the   *)
(* text of the path, as the code computes them.                            *)
(***************************************************************************)
EXTENDS Integers, Sequences, FiniteSets, TLC

VARIABLES
  workspaceFolders,   \* vscode.workspace.workspaceFolders, the fsPath of each
  tabs,               \* vscode.window.tabGroups.all.flatMap(g => g.tabs)
  activeTextEditor,   \* vscode.window.activeTextEditor (its document's fsPath)
  treeViewVisible,    \* treeView.visible
  isViewVisible,      \* extension.ts: let isViewVisible
  revealTimeout,      \* extension.ts: let revealTimeout (a timer id, 0 = undefined)
  timers,             \* the host's pending reveal timers, [id, activeUri]
  initTimerPending,   \* the setTimeout(..., 500) of activate() has not fired
  _cachedItems,       \* provider._cachedItems
  _allItemsFlat,      \* provider._allItemsFlat
  treeChangePending,  \* onDidChangeTreeData fired, the host has not re-read yet
  rendered,           \* the forest the host last read through getChildren
  clipboardItem,      \* extension.ts: let clipboardItem, [uri, operation] or None
  last                \* what the handler that ran last did

vars == << workspaceFolders, tabs, activeTextEditor, treeViewVisible, isViewVisible,
           revealTimeout, timers, initTimerPending, _cachedItems, _allItemsFlat,
           treeChangePending, rendered, clipboardItem, last >>

None == << >>

(***************************************************************************)
(* Bounds of the model.                                                    *)
(***************************************************************************)
\* the longest tab list of the tree-builder specification
MaxTabs == 3

\* the most tabs open at a time in the synchronisation specification
MaxOpenTabs == 2

(***************************************************************************)
(* Strings and paths.                                                      *)
(***************************************************************************)
File == "file"

Folder == "folder"

\* The characters of the paths of the model, in collation order.
Collation ==
  << " ", "(", ")", "/", "0", "1", "2", "3", "4", "5", "6", "7", "8", "9",
     "a", "b", "c", "o", "p", "r", "x", "y" >>

CharRank(c) == CHOOSE i \in 1..Len(Collation) : Collation[i] = c

\* String.prototype.startsWith
StartsWith(s, prefix) ==
  /\ Len(prefix) <= Len(s)
  /\ SubSeq(s, 1, Len(prefix)) = prefix

\* path.dirname of an absolute, normalised POSIX path
Dirname(p) ==
  LET slashes == { i \in 1..Len(p) : p[i] = "/" }
      lastSlash == CHOOSE i \in slashes : \A j \in slashes : j <= i
  IN IF lastSlash = 1 THEN << "/" >> ELSE SubSeq(p, 1, lastSlash - 1)

\* String.prototype.localeCompare: -1, 0 or 1
RECURSIVE LocaleCompare(_, _)
LocaleCompare(a, b) ==
  IF a = << >> /\ b = << >> THEN 0
  ELSE IF a = << >> THEN -1
  ELSE IF b = << >> THEN 1
  ELSE IF CharRank(Head(a)) < CharRank(Head(b)) THEN -1
  ELSE IF CharRank(Head(a)) > CharRank(Head(b)) THEN 1
  ELSE LocaleCompare(Tail(a), Tail(b))

(***************************************************************************)
(* TreeItem and the Tree Builder (getOpenEditors).                         *)
(***************************************************************************)
TreeItem(fsPath, type) == [ type |-> type, fsPath |-> fsPath, children |-> << >> ]

\* TreeItem.id, `${type}:${uri}`
ItemId(item) == << item.type, item.fsPath >>

\* workspaceFolders.find(wsFolder => p.startsWith(wsFolder.uri.fsPath))
FindWorkspaceFolder(p) ==
  LET hits == { i \in 1..Len(workspaceFolders) : StartsWith(p, workspaceFolders[i]) }
  IN IF hits = {} THEN None
     ELSE workspaceFolders[CHOOSE i \in hits : \A j \in hits : i <= j]

\* The objects of one build: nodes[i] is the i-th TreeItem created, its children
\* the indices of the items pushed to it; rootItems and folderCache as in the code.
EmptyBuild == [ nodes |-> << >>, rootItems |-> << >>, folderCache |-> << >> ]

NewItem(b, fsPath, type) ==
  [ b EXCEPT !.nodes = Append(@, TreeItem(fsPath, type)) ]

\* children.push that puts the child into rootItems as well
PushChild_AlsoRoot(b, parent, child) ==
  [ b EXCEPT !.nodes[parent].children = Append(@, child),
             !.rootItems = Append(@, child) ]

PushChild(b, parent, child) ==
  [ b EXCEPT !.nodes[parent].children = Append(@, child) ]

PushRoot(b, child) == [ b EXCEPT !.rootItems = Append(@, child) ]

CacheGet(b, folderPath) ==
  LET hits == { i \in 1..Len(b.folderCache) : b.folderCache[i][1] = folderPath }
  IN IF hits = {} THEN 0 ELSE b.folderCache[CHOOSE i \in hits : TRUE][2]

CacheSet(b, folderPath, item) ==
  [ b EXCEPT !.folderCache = Append(@, << folderPath, item >>) ]

\* getOrCreateFolderHierarchy without the lookup in folderCache
RECURSIVE getOrCreateFolderHierarchy_NoCache(_, _)
getOrCreateFolderHierarchy_NoCache(b, folderPath) ==
  LET workspaceFolder == FindWorkspaceFolder(folderPath)
      folder == Len(b.nodes) + 1
      b1 == CacheSet(NewItem(b, folderPath, Folder), folderPath, folder)
      parentPath == Dirname(folderPath)
  IN IF workspaceFolder = None
     THEN [ build |-> b1, folder |-> folder ]
     ELSE IF folderPath = workspaceFolder \/ parentPath = workspaceFolder
     THEN [ build |-> PushRoot(b1, folder), folder |-> folder ]
     ELSE IF parentPath = folderPath
     THEN [ build |-> PushRoot(b1, folder), folder |-> folder ]
     ELSE LET up == getOrCreateFolderHierarchy_NoCache(b1, parentPath)
          IN [ build |-> PushChild(up.build, up.folder, folder), folder |-> folder ]

\* getOrCreateFolderHierarchy: the build after the call and the folder returned
RECURSIVE getOrCreateFolderHierarchy(_, _)
getOrCreateFolderHierarchy(b, folderPath) ==
  IF CacheGet(b, folderPath) # 0
  THEN [ build |-> b, folder |-> CacheGet(b, folderPath) ]
  ELSE
    LET workspaceFolder == FindWorkspaceFolder(folderPath)
        folder == Len(b.nodes) + 1
        b1 == CacheSet(NewItem(b, folderPath, Folder), folderPath, folder)
        parentPath == Dirname(folderPath)
    IN IF workspaceFolder = None
       THEN [ build |-> b1, folder |-> folder ]
       ELSE IF folderPath = workspaceFolder \/ parentPath = workspaceFolder
       THEN [ build |-> PushRoot(b1, folder), folder |-> folder ]
       ELSE IF parentPath = folderPath
       THEN [ build |-> PushRoot(b1, folder), folder |-> folder ]
       ELSE LET up == getOrCreateFolderHierarchy(b1, parentPath)
            IN [ build |-> PushChild(up.build, up.folder, folder), folder |-> folder ]

\* The body of the loop, a file of the workspace root itself skipped, not pushed
ProcessTab_DropRootFiles(b, tab) ==
  IF ~tab.isText THEN b
  ELSE IF tab.scheme # "file" THEN b
  ELSE
    LET filePath == tab.fsPath
        dirPath == Dirname(filePath)
        workspaceFolder == FindWorkspaceFolder(filePath)
    IN IF workspaceFolder = None THEN b
       ELSE IF dirPath = workspaceFolder THEN b
       ELSE LET got == getOrCreateFolderHierarchy(b, dirPath)
                item == Len(got.build.nodes) + 1
            IN PushChild(NewItem(got.build, filePath, File), got.folder, item)

\* The body of the loop over allTabs for one tab
ProcessTab(b, tab) ==
  IF ~tab.isText THEN b
  ELSE IF tab.scheme # "file" THEN b
  ELSE
    LET filePath == tab.fsPath
        dirPath == Dirname(filePath)
        workspaceFolder == FindWorkspaceFolder(filePath)
        fileItem == Len(b.nodes) + 1
    IN IF workspaceFolder = None THEN b
       ELSE IF dirPath = workspaceFolder
       THEN PushRoot(NewItem(b, filePath, File), fileItem)
       ELSE LET got == getOrCreateFolderHierarchy(b, dirPath)
                item == Len(got.build.nodes) + 1
            IN PushChild(NewItem(got.build, filePath, File), got.folder, item)

RECURSIVE ProcessTabs(_, _)
ProcessTabs(b, allTabs) ==
  IF allTabs = << >> THEN b
  ELSE ProcessTabs(ProcessTab(b, Head(allTabs)), Tail(allTabs))

\* The comparator without the alphabetical order within a type
CompareItems_TypeOnly(a, b) ==
  IF a.type # b.type
  THEN (IF a.type = Folder THEN -1 ELSE 1)
  ELSE 0

\* The comparator of sortTreeItems
CompareItems(a, b) ==
  IF a.type # b.type
  THEN (IF a.type = Folder THEN -1 ELSE 1)
  ELSE LocaleCompare(a.fsPath, b.fsPath)

\* Array.prototype.sort with that comparator (a stable sort)
RECURSIVE InsertItem(_, _)
InsertItem(sorted, x) ==
  IF sorted = << >> THEN << x >>
  ELSE IF CompareItems(x, sorted[Len(sorted)]) >= 0 THEN Append(sorted, x)
  ELSE Append(InsertItem(SubSeq(sorted, 1, Len(sorted) - 1), x), sorted[Len(sorted)])

RECURSIVE SortItems(_)
SortItems(items) ==
  IF items = << >> THEN << >>
  ELSE InsertItem(SortItems(SubSeq(items, 1, Len(items) - 1)), items[Len(items)])

\* The TreeItem objects reachable from the item of index i, as a value
RECURSIVE ItemTree(_, _)
ItemTree(b, i) ==
  [ b.nodes[i] EXCEPT
      !.children = [ k \in 1..Len(b.nodes[i].children) |->
                       ItemTree(b, b.nodes[i].children[k]) ] ]

\* sortTreeItems without the recursion into the children
sortTreeItems_TopLevelOnly(items) == SortItems(items)

\* sortTreeItems: the level, then the children of each item of it
RECURSIVE sortTreeItems(_)
sortTreeItems(items) ==
  LET sorted == SortItems(items)
  IN [ k \in 1..Len(sorted) |->
         [ sorted[k] EXCEPT !.children = sortTreeItems(@) ] ]

\* getOpenEditors on the tab list allTabs: rootItems, sorted
BuildForest(allTabs) ==
  LET b == ProcessTabs(EmptyBuild, allTabs)
  IN sortTreeItems([ k \in 1..Len(b.rootItems) |-> ItemTree(b, b.rootItems[k]) ])

getOpenEditors == BuildForest(tabs)

\* _updateFlatItemsList: addItemsRecursively
RECURSIVE addItemsRecursively(_)
addItemsRecursively(items) ==
  IF items = << >> THEN << >>
  ELSE << Head(items) >>
         \o addItemsRecursively(Head(items).children)
         \o addItemsRecursively(Tail(items))

\* findItemByUri on the index allItems: the first item of that uri, or None
FindItem(allItems, uri) ==
  LET hits == { i \in 1..Len(allItems) : allItems[i].fsPath = uri }
  IN IF hits = {} THEN None
     ELSE allItems[CHOOSE i \in hits : \A j \in hits : i <= j]

\* this._allItemsFlat.find(item => item.type === Folder && fsPath === parentPath)
FindFolder(allItems, parentPath) ==
  LET hits == { i \in 1..Len(allItems) :
                  allItems[i].type = Folder /\ allItems[i].fsPath = parentPath }
  IN IF hits = {} THEN None
     ELSE allItems[CHOOSE i \in hits : \A j \in hits : i <= j]

\* getParent(element): a pure read of this._allItemsFlat
getParent(element) ==
  LET parentPath == Dirname(element.fsPath)
  IN IF element.type = File THEN FindFolder(_allItemsFlat, parentPath)
     ELSE IF element.type = Folder
     THEN (IF parentPath = element.fsPath THEN None
           ELSE FindFolder(_allItemsFlat, parentPath))
     ELSE None

(***************************************************************************)
(* The host: tabs, the active text editor, notifications.                  *)
(***************************************************************************)
TextTab(p) == [ isText |-> TRUE, scheme |-> "file", fsPath |-> p ]

UntitledTab == [ isText |-> TRUE, scheme |-> "untitled", fsPath |-> << "x" >> ]

WebviewTab == [ isText |-> FALSE, scheme |-> "webview", fsPath |-> << "y" >> ]

Root == << "/", "r" >>

RootB == << "/", "r", "b" >>

RootA == << "/", "r", "/", "a" >>

FileX == Root \o << "/", "x" >>

FileAX == Root \o << "/", "a", "/", "x" >>

FileABX == Root \o << "/", "a", "/", "b", "/", "x" >>

FileABY == Root \o << "/", "a", "/", "b", "/", "y" >>

FileRbX == RootB \o << "/", "x" >>

FileAbX == Root \o << "/", "a", "b", "/", "x" >>

FileCX == << "/", "c", "/", "x" >>

\* The tabs and the workspaces of the tree-builder specification
BuildTabs ==
  { TextTab(p) : p \in { FileX, FileAX, FileABX, FileABY, FileAbX, FileRbX, FileCX } }
    \cup { UntitledTab, WebviewTab }

RootConfigs == { << >>, << Root >>, << Root, RootB >>, << RootA, Root >> }

\* The tabs of the synchronisation specification
SyncTabs == { TextTab(FileX), TextTab(FileAX) }

SeqsUpTo(S, n) == UNION { [ 1..k -> S ] : k \in 0..n }

IsFileTab(tab) == tab.isText /\ tab.scheme = "file"

OpenPaths(allTabs) == { allTabs[i].fsPath : i \in { j \in 1..Len(allTabs) : IsFileTab(allTabs[j]) } }

TextPaths(allTabs) == { allTabs[i].fsPath : i \in { j \in 1..Len(allTabs) : allTabs[j].isText } }

RemoveAt(s, i) == SubSeq(s, 1, i - 1) \o SubSeq(s, i + 1, Len(s))

SwapAt(s, i) ==
  [ k \in 1..Len(s) |-> IF k = i THEN s[i + 1] ELSE IF k = i + 1 THEN s[i] ELSE s[k] ]

(***************************************************************************)
(* extension.ts: revealActiveEditor and its reveal timer.                  *)
(***************************************************************************)
\* What one handler did: the calls of revealActiveEditor, refresh and the Tree
\* Builder, the timers scheduled, the uri looked up and the item revealed, the
\* element getParent is asked about or a drop targets, the answer of getParent
\* or the folder the drop resolved, the items dragged, the copy names in the
\* directory of a duplicate and its stat probes, the calls of the host file system in order (of the probes the
\* last one), the notifications shown, an exception
Did(op) ==
  [ op |-> op, called |-> 0, refreshes |-> 0, builds |-> 0, scheduled |-> 0,
    lookup |-> None, revealed |-> None, element |-> None, parent |-> None,
    dragged |-> << >>, existing |-> {}, probes |-> 0, fsCalls |-> << >>,
    messages |-> << >>, failed |-> 0 ]

\* clearTimeout(revealTimeout)
ClearTimeout(pending, id) == { t \in pending : t.id # id }

\* the Timeout object setTimeout returns: one that is not the cleared one
NewTimerId == CHOOSE n \in 1..(Cardinality(timers) + 2) :
                /\ n # revealTimeout
                /\ \A t \in timers : t.id # n
                /\ \A m \in 1..(n - 1) : m = revealTimeout \/ \E t \in timers : t.id = m

\* refresh() that empties the forest and leaves the flat index
Refresh_KeepIndex ==
  /\ _cachedItems' = << >>
  /\ _allItemsFlat' = _allItemsFlat
  /\ treeChangePending' = TRUE

\* provider.refresh()
Refresh ==
  /\ _cachedItems' = << >>
  /\ _allItemsFlat' = << >>
  /\ treeChangePending' = TRUE

\* revealActiveEditor() without the clearTimeout of the previous timer
RevealActiveEditor_NoClear(op, visible, active) ==
  IF ~visible \/ active = None
  THEN /\ revealTimeout' = 0
       /\ timers' = timers
       /\ last' = [ Did(op) EXCEPT !.called = 1 ]
       /\ UNCHANGED << _cachedItems, _allItemsFlat, treeChangePending >>
  ELSE /\ Refresh
       /\ revealTimeout' = NewTimerId
       /\ timers' = timers \cup { [ id |-> NewTimerId, activeUri |-> active ] }
       /\ last' = [ Did(op) EXCEPT !.called = 1, !.refreshes = 1, !.scheduled = 1 ]

\* revealActiveEditor(), called at the end of a handler that did `did` before
\* it; visible and active are isViewVisible and vscode.window.activeTextEditor
\* as the call finds them
RevealActiveEditorAfter(did, visible, active) ==
  LET cleared == IF revealTimeout # 0 THEN ClearTimeout(timers, revealTimeout) ELSE timers
  IN IF ~visible \/ active = None
     THEN /\ revealTimeout' = 0
          /\ timers' = cleared
          /\ last' = [ did EXCEPT !.called = 1 ]
          /\ UNCHANGED << _cachedItems, _allItemsFlat, treeChangePending >>
     ELSE /\ Refresh
          /\ revealTimeout' = NewTimerId
          /\ timers' = cleared \cup { [ id |-> NewTimerId, activeUri |-> active ] }
          /\ last' = [ did EXCEPT !.called = 1, !.refreshes = 1, !.scheduled = 1 ]

\* revealActiveEditor(), called by the handler op, which does nothing else
RevealActiveEditor(op, visible, active) ==
  RevealActiveEditorAfter(Did(op), visible, active)

\* the callback, looking up the editor active when it fires, not the captured uri
RevealTimerFires_CurrentEditor(t) ==
  /\ t \in timers
  /\ timers' = timers \ { t }
  /\ revealTimeout' = 0
  /\ IF ~isViewVisible
     THEN /\ last' = Did("revealTimer")
          /\ UNCHANGED << _cachedItems, _allItemsFlat >>
     ELSE LET build == _allItemsFlat = << >>
              items == IF build THEN getOpenEditors ELSE _cachedItems
              allItems == IF build THEN addItemsRecursively(items) ELSE _allItemsFlat
              activeItem == FindItem(allItems, activeTextEditor)
          IN /\ _cachedItems' = items
             /\ _allItemsFlat' = allItems
             /\ last' = [ Did("revealTimer") EXCEPT
                            !.builds = IF build THEN 1 ELSE 0,
                            !.lookup = activeTextEditor,
                            !.revealed = IF activeItem = None THEN None
                                         ELSE ItemId(activeItem) ]
  /\ UNCHANGED << clipboardItem, workspaceFolders, tabs, activeTextEditor, treeViewVisible,
                  isViewVisible, initTimerPending, treeChangePending, rendered >>

\* the callback without the second check of isViewVisible
RevealTimerFires_NoVisibilityCheck(t) ==
  /\ t \in timers
  /\ timers' = timers \ { t }
  /\ revealTimeout' = 0
  /\ LET build == _allItemsFlat = << >>
         items == IF build THEN getOpenEditors ELSE _cachedItems
         allItems == IF build THEN addItemsRecursively(items) ELSE _allItemsFlat
         activeItem == FindItem(allItems, t.activeUri)
     IN /\ _cachedItems' = items
        /\ _allItemsFlat' = allItems
        /\ last' = [ Did("revealTimer") EXCEPT
                       !.builds = IF build THEN 1 ELSE 0,
                       !.lookup = t.activeUri,
                       !.revealed = IF activeItem = None THEN None
                                    ELSE ItemId(activeItem) ]
  /\ UNCHANGED << clipboardItem, workspaceFolders, tabs, activeTextEditor, treeViewVisible,
                  isViewVisible, initTimerPending, treeChangePending, rendered >>

\* the callback with an error notification when the item is not found
RevealTimerFires_MissReported(t) ==
  /\ t \in timers
  /\ timers' = timers \ { t }
  /\ revealTimeout' = 0
  /\ IF ~isViewVisible
     THEN /\ last' = Did("revealTimer")
          /\ UNCHANGED << _cachedItems, _allItemsFlat >>
     ELSE LET build == _allItemsFlat = << >>
              items == IF build THEN getOpenEditors ELSE _cachedItems
              allItems == IF build THEN addItemsRecursively(items) ELSE _allItemsFlat
              activeItem == FindItem(allItems, t.activeUri)
          IN /\ _cachedItems' = items
             /\ _allItemsFlat' = allItems
             /\ last' = [ Did("revealTimer") EXCEPT
                            !.builds = IF build THEN 1 ELSE 0,
                            !.lookup = t.activeUri,
                            !.revealed = IF activeItem = None THEN None
                                         ELSE ItemId(activeItem),
                            !.messages = IF activeItem = None
                                         THEN << [ show |-> "errorReveal", answer |-> None ] >>
                                         ELSE << >> ]
  /\ UNCHANGED << clipboardItem, workspaceFolders, tabs, activeTextEditor, treeViewVisible,
                  isViewVisible, initTimerPending, treeChangePending, rendered >>

\* the callback of setTimeout(..., 100)
RevealTimerFires(t) ==
  /\ t \in timers
  /\ timers' = timers \ { t }
  /\ revealTimeout' = 0
  /\ IF ~isViewVisible
     THEN /\ last' = Did("revealTimer")
          /\ UNCHANGED << _cachedItems, _allItemsFlat >>
     ELSE LET build == _allItemsFlat = << >>
              items == IF build THEN getOpenEditors ELSE _cachedItems
              allItems == IF build THEN addItemsRecursively(items) ELSE _allItemsFlat
              activeItem == FindItem(allItems, t.activeUri)
          IN /\ _cachedItems' = items
             /\ _allItemsFlat' = allItems
             /\ last' = [ Did("revealTimer") EXCEPT
                            !.builds = IF build THEN 1 ELSE 0,
                            !.lookup = t.activeUri,
                            !.revealed = IF activeItem = None THEN None
                                         ELSE ItemId(activeItem) ]
  /\ UNCHANGED << clipboardItem, workspaceFolders, tabs, activeTextEditor, treeViewVisible,
                  isViewVisible, initTimerPending, treeChangePending, rendered >>

\* the handler setting isViewVisible only when the view becomes visible
OnDidChangeVisibility_SetOnShow ==
  /\ treeViewVisible' = ~treeViewVisible
  /\ isViewVisible' = (isViewVisible \/ treeViewVisible')
  /\ IF treeViewVisible'
     THEN RevealActiveEditor("visibility", TRUE, activeTextEditor)
     ELSE /\ last' = Did("visibility")
          /\ UNCHANGED << revealTimeout, timers, _cachedItems, _allItemsFlat,
                          treeChangePending >>
  /\ UNCHANGED << clipboardItem, workspaceFolders, tabs, activeTextEditor, initTimerPending, rendered >>

\* treeView.onDidChangeVisibility(e)
OnDidChangeVisibility ==
  /\ treeViewVisible' = ~treeViewVisible
  /\ isViewVisible' = treeViewVisible'
  /\ IF isViewVisible'
     THEN RevealActiveEditor("visibility", TRUE, activeTextEditor)
     ELSE /\ last' = Did("visibility")
          /\ UNCHANGED << revealTimeout, timers, _cachedItems, _allItemsFlat,
                          treeChangePending >>
  /\ UNCHANGED << clipboardItem, workspaceFolders, tabs, activeTextEditor, initTimerPending, rendered >>

\* setTimeout(..., 500) of activate()
InitialVisibility ==
  /\ initTimerPending
  /\ initTimerPending' = FALSE
  /\ isViewVisible' = treeViewVisible
  /\ IF isViewVisible'
     THEN RevealActiveEditor("initialVisibility", TRUE, activeTextEditor)
     ELSE /\ last' = Did("initialVisibility")
          /\ UNCHANGED << revealTimeout, timers, _cachedItems, _allItemsFlat,
                          treeChangePending >>
  /\ UNCHANGED << clipboardItem, workspaceFolders, tabs, activeTextEditor, treeViewVisible, rendered >>

\* The active text editor after the tab i of tabs is closed: unchanged while its
\* document is still open, else the editor of any remaining text tab, or none
ActiveAfterClose(i) ==
  LET rest == TextPaths(RemoveAt(tabs, i))
  IN IF activeTextEditor \in rest \cup { None } THEN { activeTextEditor }
     ELSE rest \cup { None }

\* tabGroups.onDidChangeTabs, a tab opened (and, a text tab, made active)
OnDidChangeTabsOpen(tab) ==
  /\ Len(tabs) < MaxOpenTabs
  /\ tabs' = Append(tabs, tab)
  /\ activeTextEditor' = IF tab.isText THEN tab.fsPath ELSE None
  /\ RevealActiveEditor("tabs", isViewVisible, activeTextEditor')
  /\ UNCHANGED << clipboardItem, workspaceFolders, treeViewVisible, isViewVisible, initTimerPending,
                  rendered >>

\* tabGroups.onDidChangeTabs, the tab i closed
OnDidChangeTabsClose(i) ==
  /\ i \in 1..Len(tabs)
  /\ tabs' = RemoveAt(tabs, i)
  /\ activeTextEditor' \in ActiveAfterClose(i)
  /\ RevealActiveEditor("tabsClose", isViewVisible, activeTextEditor')
  /\ UNCHANGED << clipboardItem, workspaceFolders, treeViewVisible, isViewVisible, initTimerPending,
                  rendered >>

\* tabGroups.onDidChangeTabs, the tab i moved one place to the right
OnDidChangeTabsMove(i) ==
  /\ i \in 1..(Len(tabs) - 1)
  /\ tabs[i] # tabs[i + 1]
  /\ tabs' = SwapAt(tabs, i)
  /\ RevealActiveEditor("tabs", isViewVisible, activeTextEditor)
  /\ UNCHANGED << clipboardItem, workspaceFolders, activeTextEditor, treeViewVisible, isViewVisible,
                  initTimerPending, rendered >>

\* The editors window.onDidChangeActiveTextEditor can report: the editor of an
\* open text document, or none (the active tab shows no text editor the host
\* exposes: another kind of editor, or a file too large for the extension host)
ActiveEditors == TextPaths(tabs) \cup { None }

\* window.onDidChangeActiveTextEditor(editor); the handler calls
\* revealActiveEditor only for an editor
OnDidChangeActiveTextEditor(editor) ==
  /\ editor \in ActiveEditors
  /\ activeTextEditor' = editor
  /\ IF editor # None
     THEN RevealActiveEditor("activeTextEditor", isViewVisible, editor)
     ELSE /\ last' = Did("activeTextEditor")
          /\ UNCHANGED << revealTimeout, timers, _cachedItems, _allItemsFlat,
                          treeChangePending >>
  /\ UNCHANGED << clipboardItem, workspaceFolders, tabs, treeViewVisible, isViewVisible,
                  initTimerPending, rendered >>

\* A notification whose handler is () => revealActiveEditor()
Notified(op) ==
  /\ RevealActiveEditor(op, isViewVisible, activeTextEditor)
  /\ UNCHANGED << clipboardItem, workspaceFolders, tabs, activeTextEditor, treeViewVisible,
                  isViewVisible, initTimerPending, rendered >>

OnDidOpenTextDocument == Notified("openTextDocument")

OnDidChangeTabGroups == Notified("tabGroups")

OnDidChangeTextEditorViewColumn == Notified("viewColumn")

OnDidChangeVisibleTextEditors == Notified("visibleTextEditors")

\* window.onDidChangeWindowState(e): revealActiveEditor only when e.focused
OnDidChangeWindowState(focused) ==
  IF focused THEN Notified("windowState")
  ELSE /\ last' = Did("windowState")
       /\ UNCHANGED << clipboardItem, workspaceFolders, tabs, activeTextEditor, treeViewVisible,
                       isViewVisible, revealTimeout, timers, initTimerPending,
                       _cachedItems, _allItemsFlat, treeChangePending, rendered >>

\* the command nestedOpenEditors.refresh
RefreshCommand == Notified("refreshCommand")

\* getChildren(undefined) firing onDidChangeTreeData after the build
GetChildren_Fires ==
  /\ treeViewVisible
  /\ treeChangePending
  /\ _cachedItems' = getOpenEditors
  /\ _allItemsFlat' = addItemsRecursively(_cachedItems')
  /\ rendered' = _cachedItems'
  /\ treeChangePending' = TRUE
  /\ last' = [ Did("getChildren") EXCEPT !.builds = 1 ]
  /\ UNCHANGED << clipboardItem, workspaceFolders, tabs, activeTextEditor, treeViewVisible,
                  isViewVisible, revealTimeout, timers, initTimerPending >>

\* provider.getChildren(undefined), which the host calls for a visible view
\* after onDidChangeTreeData (and to fill the view the first time)
GetChildren ==
  /\ treeViewVisible
  /\ treeChangePending
  /\ _cachedItems' = getOpenEditors
  /\ _allItemsFlat' = addItemsRecursively(_cachedItems')
  /\ rendered' = _cachedItems'
  /\ treeChangePending' = FALSE
  /\ last' = [ Did("getChildren") EXCEPT !.builds = 1 ]
  /\ UNCHANGED << clipboardItem, workspaceFolders, tabs, activeTextEditor, treeViewVisible,
                  isViewVisible, revealTimeout, timers, initTimerPending >>

(***************************************************************************)
(* The extension from activate() on, in the workspace << Root >>.           *)
(***************************************************************************)
Init ==
  /\ workspaceFolders = << Root >>
  /\ tabs = << >>
  /\ activeTextEditor = None
  /\ treeViewVisible \in BOOLEAN
  /\ isViewVisible = FALSE
  /\ revealTimeout = 0
  /\ timers = {}
  /\ initTimerPending = TRUE
  /\ _cachedItems = << >>
  /\ _allItemsFlat = << >>
  /\ treeChangePending = TRUE
  /\ rendered = << >>
  /\ clipboardItem = None
  /\ last = Did("activate")

Next ==
  \/ OnDidChangeVisibility
  \/ InitialVisibility
  \/ \E tab \in SyncTabs : OnDidChangeTabsOpen(tab)
  \/ \E i \in 1..MaxOpenTabs : OnDidChangeTabsClose(i)
  \/ \E editor \in ActiveEditors : OnDidChangeActiveTextEditor(editor)
  \/ OnDidOpenTextDocument
  \/ OnDidChangeTabGroups
  \/ OnDidChangeTextEditorViewColumn
  \/ OnDidChangeVisibleTextEditors
  \/ \E focused \in BOOLEAN : OnDidChangeWindowState(focused)
  \/ RefreshCommand
  \/ \E t \in timers : RevealTimerFires(t)
  \/ GetChildren

Spec == Init /\ [][Next]_vars

(***************************************************************************)
(* The Tree Builder on every tab list and workspace of the bounds: the     *)
(* view is visible, the tabs are open and none of them is the active text  *)
(* editor; the host reads the tree and the user reorders the tabs.         *)
(***************************************************************************)
InitBuild ==
  /\ workspaceFolders \in RootConfigs
  /\ tabs \in SeqsUpTo(BuildTabs, MaxTabs)
  /\ activeTextEditor = None
  /\ treeViewVisible = TRUE
  /\ isViewVisible = TRUE
  /\ revealTimeout = 0
  /\ timers = {}
  /\ initTimerPending = FALSE
  /\ _cachedItems = << >>
  /\ _allItemsFlat = << >>
  /\ treeChangePending = TRUE
  /\ rendered = << >>
  /\ clipboardItem = None
  /\ last = Did("initialVisibility")

NextBuild ==
  \/ GetChildren
  \/ \E i \in 1..MaxTabs : OnDidChangeTabsMove(i)

SpecBuild == InitBuild /\ [][NextBuild]_vars

(***************************************************************************)
(* The provider under the calls of the host: getChildren, getParent, the   *)
(* lookups of the reveal timer, and the drag and drop controller.          *)
(* handleDrop is taken as one step: the provider state it reads and writes *)
(* (the index for the target folder, refresh() at the end) is not touched  *)
(* by the calls it awaits.                                                 *)
(***************************************************************************)
\* path.basename
Basename(p) ==
  LET slashes == { i \in 1..Len(p) : p[i] = "/" }
      lastSlash == CHOOSE i \in slashes : \A j \in slashes : j <= i
  IN SubSeq(p, lastSlash + 1, Len(p))

\* path.join(dir, name)
Join(dir, name) == IF dir = << "/" >> THEN dir \o name ELSE dir \o << "/" >> \o name

\* isFileOpenInEditor(uri) on the tab list allTabs
isFileOpenInEditor(allTabs, uri) ==
  \E i \in 1..Len(allTabs) :
    allTabs[i].isText /\ allTabs[i].scheme = "file" /\ allTabs[i].fsPath = uri

\* a notification shown, with the answer of the user to a prompt
Message(show, answer) == [ show |-> show, answer |-> answer ]

\* a call of vscode.workspace.fs and whether it succeeded
FsCall(call, from, to, ok) == [ call |-> call, from |-> from, to |-> to, ok |-> ok ]

\* provider.getParent(element), called by the host (treeView.reveal resolves
\* the parent chain of the item with it)
GetParent(element) ==
  /\ treeViewVisible
  /\ last' = [ Did("getParent") EXCEPT
                 !.element = ItemId(element),
                 !.parent = IF getParent(element) = None THEN None
                            ELSE ItemId(getParent(element)) ]
  /\ UNCHANGED << clipboardItem, workspaceFolders, tabs, activeTextEditor,
                  treeViewVisible, isViewVisible, revealTimeout, timers,
                  initTimerPending, _cachedItems, _allItemsFlat, treeChangePending,
                  rendered >>

\* What the user and the file system answer while one dragged item is handled:
\* the choice at the prompt for a file that is not open, whether
\* showTextDocument succeeds, whether stat finds the target, the answer to the
\* overwrite prompt, whether rename succeeds
Answer(action, openOk, exists, overwrite, renameOk) ==
  [ action |-> action, openOk |-> openOk, exists |-> exists,
    overwrite |-> overwrite, renameOk |-> renameOk ]

MoveAnswers(action) ==
  { Answer(action, TRUE, FALSE, FALSE, TRUE), Answer(action, TRUE, FALSE, FALSE, FALSE),
    Answer(action, TRUE, TRUE, FALSE, TRUE), Answer(action, TRUE, TRUE, TRUE, TRUE) }

DropAnswers ==
  MoveAnswers("move")
    \cup { Answer("open", TRUE, FALSE, FALSE, TRUE), Answer("open", FALSE, FALSE, FALSE, TRUE),
           Answer("cancel", TRUE, FALSE, FALSE, TRUE) }

\* the answers that can make a difference for this item
AnswersFor(item, targetFolder) ==
  IF item.type = Folder /\ StartsWith(targetFolder.fsPath, item.uri)
  THEN { Answer("cancel", TRUE, FALSE, FALSE, TRUE) }
  ELSE IF isFileOpenInEditor(tabs, item.uri) THEN MoveAnswers("cancel")
  ELSE DropAnswers

\* The state one drop goes through: the tabs and the active editor (the user
\* may have a dragged file opened), the file-system calls and the
\* notifications so far, whether a call threw out of handleDrop
DropState ==
  [ tabs |-> tabs, active |-> activeTextEditor, fsCalls |-> << >>,
    messages |-> << >>, thrown |-> FALSE ]

\* moveFileToFolder that renames whatever the answer to the overwrite prompt
moveFileToFolder_IgnoresAnswer(d, sourceUri, targetFolderUri, ans) ==
  LET fileName == Basename(sourceUri)
      targetUri == Join(targetFolderUri, fileName)
      stat == FsCall("stat", targetUri, None, ans.exists)
      rename == FsCall("rename", sourceUri, targetUri, ans.renameOk)
      asked == IF ans.exists
               THEN << Message("askOverwrite", IF ans.overwrite THEN "yes" ELSE "no") >>
               ELSE << >>
  IN [ d EXCEPT !.fsCalls = @ \o << stat, rename >>,
                !.messages = @ \o asked
                               \o << Message(IF ans.renameOk THEN "infoMoved"
                                             ELSE "errorMove", None) >> ]

\* moveFileToFolder(sourceUri, targetFolderUri)
moveFileToFolder(d, sourceUri, targetFolderUri, ans) ==
  LET fileName == Basename(sourceUri)
      targetUri == Join(targetFolderUri, fileName)
      stat == FsCall("stat", targetUri, None, ans.exists)
      rename == FsCall("rename", sourceUri, targetUri, ans.renameOk)
      asked == IF ans.exists
               THEN << Message("askOverwrite", IF ans.overwrite THEN "yes" ELSE "no") >>
               ELSE << >>
  IN IF ans.exists /\ ~ans.overwrite
     THEN [ d EXCEPT !.fsCalls = Append(@, stat), !.messages = @ \o asked ]
     ELSE [ d EXCEPT !.fsCalls = @ \o << stat, rename >>,
                     !.messages = @ \o asked
                                    \o << Message(IF ans.renameOk THEN "infoMoved"
                                                  ELSE "errorMove", None) >> ]

\* the body of the loop over draggedItems for one item
DropItem(d, draggedItem, targetFolder, ans) ==
  LET sourceUri == draggedItem.uri
  IN IF draggedItem.type = Folder /\ StartsWith(targetFolder.fsPath, sourceUri)
     THEN [ d EXCEPT !.messages = Append(@, Message("warnSelf", None)) ]
     ELSE IF isFileOpenInEditor(d.tabs, sourceUri)
     THEN moveFileToFolder(d, sourceUri, targetFolder.fsPath, ans)
     ELSE LET asked == [ d EXCEPT !.messages = Append(@, Message("askOpenOrMove", ans.action)) ]
          IN IF ans.action = "open"
             THEN IF ans.openOk /\ draggedItem.type = File
                  THEN [ asked EXCEPT !.tabs = Append(@, TextTab(sourceUri)),
                                      !.active = sourceUri ]
                  ELSE [ asked EXCEPT !.thrown = TRUE ]
             ELSE IF ans.action = "move"
             THEN moveFileToFolder(asked, sourceUri, targetFolder.fsPath, ans)
             ELSE asked

\* for (const draggedItem of draggedItems): an exception ends the loop
RECURSIVE DropItems(_, _, _, _)
DropItems(d, draggedItems, targetFolder, answers) ==
  IF draggedItems = << >> \/ d.thrown THEN d
  ELSE DropItems(DropItem(d, Head(draggedItems), targetFolder, Head(answers)),
                 Tail(draggedItems), targetFolder, Tail(answers))

\* the target folder of a drop: the folder, or for a file the Folder node of
\* its directory in this._allItemsFlat
TargetFolder(target) ==
  IF target = None THEN None
  ELSE IF target.type = Folder THEN target
  ELSE FindFolder(_allItemsFlat, Dirname(target.fsPath))

AnswerSeqs(draggedItems, targetFolder) ==
  IF targetFolder = None THEN { << >> }
  ELSE { answers \in [ 1..Len(draggedItems) -> DropAnswers \cup MoveAnswers("cancel") ] :
           \A i \in 1..Len(draggedItems) :
             answers[i] \in AnswersFor(draggedItems[i], targetFolder) }

\* handleDrop(target, sources): draggedItems is the value of the transfer,
\* answers what the user and the file system answer for each item
HandleDrop(target, draggedItems, answers) ==
  /\ treeViewVisible
  /\ LET targetFolder == TargetFolder(target)
         did == [ Did("handleDrop") EXCEPT
                    !.dragged = draggedItems,
                    !.element = IF target = None THEN None ELSE ItemId(target),
                    !.parent = IF targetFolder = None THEN None ELSE ItemId(targetFolder) ]
         stopped(message) ==
           /\ last' = [ did EXCEPT !.messages = message ]
           /\ UNCHANGED << tabs, activeTextEditor, _cachedItems, _allItemsFlat,
                           treeChangePending >>
     IN IF draggedItems = << >> THEN stopped(<< >>)
        ELSE IF target = None THEN stopped(<< Message("warnRoot", None) >>)
        ELSE IF targetFolder = None THEN stopped(<< Message("errorTarget", None) >>)
        ELSE LET d == DropItems(DropState, draggedItems, targetFolder, answers)
             IN /\ tabs' = d.tabs
                /\ activeTextEditor' = d.active
                /\ IF d.thrown
                   THEN /\ last' = [ did EXCEPT !.fsCalls = d.fsCalls,
                                                !.messages = d.messages, !.failed = 1 ]
                        /\ UNCHANGED << _cachedItems, _allItemsFlat, treeChangePending >>
                   ELSE /\ Refresh
                        /\ last' = [ did EXCEPT !.fsCalls = d.fsCalls,
                                                !.messages = d.messages, !.refreshes = 1 ]
  /\ UNCHANGED << clipboardItem, workspaceFolders, treeViewVisible, isViewVisible,
                  revealTimeout, timers, initTimerPending, rendered >>

DragItem(uri, type) == [ uri |-> uri, type |-> type ]

\* The transfers of the model: nothing, one item (a folder of the tree, the
\* folder whose name starts with its name, an open file, a file that is not
\* open), two files
DragItems ==
  { DragItem(Root \o << "/", "a" >>, Folder), DragItem(Root \o << "/", "a", "b" >>, Folder),
    DragItem(FileABX, File), DragItem(FileABY, File) }

DraggedLists ==
  { << >> } \cup { << item >> : item \in DragItems }
    \cup { << DragItem(FileABX, File), DragItem(FileABY, File) >> }

\* the items the host can pass: those it last read
HostItems ==
  LET items == addItemsRecursively(rendered)
  IN { items[i] : i \in 1..Len(items) }

\* The targets of the drops of the model: none, two folders, a file at the
\* root level of the forest, a file in a folder
DropTargets ==
  { item \in HostItems :
      ItemId(item) \in { << Folder, Root \o << "/", "a" >> >>,
                         << Folder, Root \o << "/", "a", "b" >> >>,
                         << File, FileX >>, << File, FileAbX >> } }
    \cup { None }

ProviderTabLists ==
  { << >>, << TextTab(FileCX) >>,
    << TextTab(FileX), TextTab(FileABX), TextTab(FileAbX) >> }

InitProvider ==
  /\ workspaceFolders = << Root >>
  /\ tabs \in ProviderTabLists
  /\ activeTextEditor = IF tabs = << >> THEN None ELSE tabs[Len(tabs)].fsPath
  /\ treeViewVisible = TRUE
  /\ isViewVisible = TRUE
  /\ revealTimeout = 0
  /\ timers = {}
  /\ initTimerPending = FALSE
  /\ _cachedItems = << >>
  /\ _allItemsFlat = << >>
  /\ treeChangePending = TRUE
  /\ rendered = << >>
  /\ clipboardItem = None
  /\ last = Did("initialVisibility")

NextProvider ==
  \/ GetChildren
  \/ RefreshCommand
  \/ \E t \in timers : RevealTimerFires(t)
  \/ \E element \in HostItems : GetParent(element)
  \/ \E target \in DropTargets, draggedItems \in DraggedLists :
       \E answers \in AnswerSeqs(draggedItems, TargetFolder(target)) :
         HandleDrop(target, draggedItems, answers)

SpecProvider == InitProvider /\ [][NextProvider]_vars

(***************************************************************************)
(* extension.ts: the file commands of the context menu. A command is taken *)
(* as one step, from the item the host passes to the return of its         *)
(* handler; what the user types or answers and whether a call of the host  *)
(* (vscode.workspace.fs, vscode.open) succeeds are inputs of the step.     *)
(***************************************************************************)
\* the loop guard of duplicate: while (counter < 100)
CounterLimit == 100

\* the handler returns without a call of revealActiveEditor
Returns(did) ==
  /\ last' = did
  /\ UNCHANGED << revealTimeout, timers, _cachedItems, _allItemsFlat, treeChangePending >>

Info == << Message("info", None) >>

Warning == << Message("warning", None) >>

Error == << Message("error", None) >>

\* vscode.Uri.joinPath(uri, '..', name)
JoinSibling(uri, name) == Join(Dirname(uri), name)

\* the tabs after vscode.open(uri): the tab of the file, opened if it is not
OpenedTabs(uri) ==
  IF isFileOpenInEditor(tabs, uri) THEN tabs ELSE Append(tabs, TextTab(uri))

\* cut / copy that keeps an item already on the clipboard
SetClipboard_KeepFirst(operation, treeItem) ==
  /\ clipboardItem' = IF clipboardItem = None
                       THEN [ uri |-> treeItem.fsPath, operation |-> operation ]
                       ELSE clipboardItem
  /\ Returns([ Did(operation) EXCEPT !.element = ItemId(treeItem), !.messages = Info ])
  /\ UNCHANGED << workspaceFolders, tabs, activeTextEditor, treeViewVisible,
                  isViewVisible, initTimerPending, rendered >>

\* nestedOpenEditors.cut / nestedOpenEditors.copy
SetClipboard(operation, treeItem) ==
  /\ clipboardItem' = [ uri |-> treeItem.fsPath, operation |-> operation ]
  /\ Returns([ Did(operation) EXCEPT !.element = ItemId(treeItem), !.messages = Info ])
  /\ UNCHANGED << workspaceFolders, tabs, activeTextEditor, treeViewVisible,
                  isViewVisible, initTimerPending, rendered >>

Cut(treeItem) == SetClipboard("cut", treeItem)

Copy(treeItem) == SetClipboard("copy", treeItem)

\* nestedOpenEditors.rename: newName is what the input box returns (None when
\* it is dismissed), ok whether fs.rename succeeds
Rename(treeItem, newName, ok) ==
  /\ LET currentName == Basename(treeItem.fsPath)
         oldUri == treeItem.fsPath
         newUri == JoinSibling(oldUri, newName)
         did == [ Did("rename") EXCEPT !.fsCalls = << FsCall("rename", oldUri, newUri, ok) >> ]
     IN IF newName # None /\ newName # currentName
        THEN IF ok
             THEN RevealActiveEditorAfter([ did EXCEPT !.messages = Info ],
                                          isViewVisible, activeTextEditor)
             ELSE Returns([ did EXCEPT !.messages = Error, !.failed = 1 ])
        ELSE Returns(Did("rename"))
  /\ UNCHANGED << clipboardItem, workspaceFolders, tabs, activeTextEditor,
                  treeViewVisible, isViewVisible, initTimerPending, rendered >>

\* nestedOpenEditors.delete: confirmed is the answer to the modal prompt
Delete(treeItem, confirmed, ok) ==
  /\ LET did == [ Did("delete") EXCEPT
                    !.fsCalls = << FsCall("delete", treeItem.fsPath, None, ok) >> ]
     IN IF confirmed
        THEN IF ok
             THEN RevealActiveEditorAfter([ did EXCEPT !.messages = Info ],
                                          isViewVisible, activeTextEditor)
             ELSE Returns([ did EXCEPT !.messages = Error, !.failed = 1 ])
        ELSE Returns(Did("delete"))
  /\ UNCHANGED << clipboardItem, workspaceFolders, tabs, activeTextEditor,
                  treeViewVisible, isViewVisible, initTimerPending, rendered >>

\* paste with the clipboard cleared before the rename of a cut is awaited
Paste_ClearsFirst(treeItem, ok) ==
  /\ IF clipboardItem = None
     THEN /\ Returns([ Did("paste") EXCEPT !.element = ItemId(treeItem), !.messages = Warning ])
          /\ UNCHANGED clipboardItem
     ELSE IF treeItem.type # Folder
     THEN /\ Returns([ Did("paste") EXCEPT !.element = ItemId(treeItem), !.messages = Warning ])
          /\ UNCHANGED clipboardItem
     ELSE LET sourceUri == clipboardItem.uri
              targetUri == Join(treeItem.fsPath, Basename(sourceUri))
              call == IF clipboardItem.operation = "cut" THEN "rename" ELSE "copy"
              did == [ Did("paste") EXCEPT !.element = ItemId(treeItem),
                         !.fsCalls = << FsCall(call, sourceUri, targetUri, ok) >> ]
          IN /\ clipboardItem' = IF clipboardItem.operation = "cut" THEN None
                                 ELSE clipboardItem
             /\ IF ok
                THEN RevealActiveEditorAfter([ did EXCEPT !.messages = Info ],
                                             isViewVisible, activeTextEditor)
                ELSE Returns([ did EXCEPT !.messages = Error, !.failed = 1 ])
  /\ UNCHANGED << workspaceFolders, tabs, activeTextEditor, treeViewVisible,
                  isViewVisible, initTimerPending, rendered >>

\* nestedOpenEditors.paste: ok is whether fs.rename (cut) or fs.copy succeeds
Paste(treeItem, ok) ==
  /\ IF clipboardItem = None
     THEN /\ Returns([ Did("paste") EXCEPT !.element = ItemId(treeItem), !.messages = Warning ])
          /\ UNCHANGED clipboardItem
     ELSE IF treeItem.type # Folder
     THEN /\ Returns([ Did("paste") EXCEPT !.element = ItemId(treeItem), !.messages = Warning ])
          /\ UNCHANGED clipboardItem
     ELSE LET sourceUri == clipboardItem.uri
              targetUri == Join(treeItem.fsPath, Basename(sourceUri))
              call == IF clipboardItem.operation = "cut" THEN "rename" ELSE "copy"
              did == [ Did("paste") EXCEPT !.element = ItemId(treeItem),
                         !.fsCalls = << FsCall(call, sourceUri, targetUri, ok) >> ]
          IN IF ok
             THEN /\ clipboardItem' = IF clipboardItem.operation = "cut" THEN None
                                      ELSE clipboardItem
                  /\ RevealActiveEditorAfter([ did EXCEPT !.messages = Info ],
                                             isViewVisible, activeTextEditor)
             ELSE /\ UNCHANGED clipboardItem
                  /\ Returns([ did EXCEPT !.messages = Error, !.failed = 1 ])
  /\ UNCHANGED << workspaceFolders, tabs, activeTextEditor, treeViewVisible,
                  isViewVisible, initTimerPending, rendered >>

\* nestedOpenEditors.newFile: fileName is what the input box returns, writeOk
\* and openOk whether fs.writeFile and vscode.open succeed
NewFile(treeItem, fileName, writeOk, openOk) ==
  /\ LET newFileUri == Join(treeItem.fsPath, fileName)
         did == [ Did("newFile") EXCEPT
                    !.fsCalls = << FsCall("writeFile", newFileUri, None, writeOk) >> ]
     IN IF treeItem.type # Folder
        THEN /\ Returns([ Did("newFile") EXCEPT !.messages = Warning ])
             /\ UNCHANGED << tabs, activeTextEditor >>
        ELSE IF fileName = None
        THEN /\ Returns(Did("newFile"))
             /\ UNCHANGED << tabs, activeTextEditor >>
        ELSE IF ~writeOk
        THEN /\ Returns([ did EXCEPT !.messages = Error, !.failed = 1 ])
             /\ UNCHANGED << tabs, activeTextEditor >>
        ELSE IF ~openOk
        THEN /\ Returns([ did EXCEPT !.messages = Info \o Error, !.failed = 1 ])
             /\ UNCHANGED << tabs, activeTextEditor >>
        ELSE /\ Len(OpenedTabs(newFileUri)) <= MaxOpenTabs
             /\ tabs' = OpenedTabs(newFileUri)
             /\ activeTextEditor' = newFileUri
             /\ RevealActiveEditorAfter([ did EXCEPT !.messages = Info ],
                                        isViewVisible, activeTextEditor')
  /\ UNCHANGED << clipboardItem, workspaceFolders, treeViewVisible, isViewVisible,
                  initTimerPending, rendered >>

\* nestedOpenEditors.newFolder
NewFolder(treeItem, folderName, ok) ==
  /\ LET newFolderUri == Join(treeItem.fsPath, folderName)
         did == [ Did("newFolder") EXCEPT
                    !.fsCalls = << FsCall("createDirectory", newFolderUri, None, ok) >> ]
     IN IF treeItem.type # Folder
        THEN Returns([ Did("newFolder") EXCEPT !.messages = Warning ])
        ELSE IF folderName = None THEN Returns(Did("newFolder"))
        ELSE IF ok
        THEN RevealActiveEditorAfter([ did EXCEPT !.messages = Info ],
                                     isViewVisible, activeTextEditor)
        ELSE Returns([ did EXCEPT !.messages = Error, !.failed = 1 ])
  /\ UNCHANGED << clipboardItem, workspaceFolders, tabs, activeTextEditor,
                  treeViewVisible, isViewVisible, initTimerPending, rendered >>

\* path.extname of a file name
Extname(name) ==
  LET dots == { i \in 2..Len(name) : name[i] = "." }
  IN IF dots = {} THEN << >>
     ELSE SubSeq(name, CHOOSE i \in dots : \A j \in dots : j <= i, Len(name))

Digits == << "0", "1", "2", "3", "4", "5", "6", "7", "8", "9" >>

\* `${counter}`
RECURSIVE Decimal(_)
Decimal(n) ==
  IF n < 10 THEN << Digits[n + 1] >>
  ELSE Decimal(n \div 10) \o << Digits[(n % 10) + 1] >>

\* path.join(parentPath, `${stem} (copy)${extension}`), or (copy ${counter})
DuplicatePath(parentPath, stem, extension, counter) ==
  Join(parentPath,
       stem \o << " ", "(", "c", "o", "p", "y" >>
            \o (IF counter = 1 THEN << >> ELSE << " " >> \o Decimal(counter))
            \o << ")" >> \o extension)

\* do { ...; try { stat; counter++ } catch { break } } while (counter < 100), in
\* a directory where stat finds the copy names of the counters of existing: the
\* counter of the last name made, the number of stat calls, whether the last
\* stat found the name. The loop breaks at the first counter whose name is
\* free and otherwise ends after the name of counter 99.
ProbeNames(existing) ==
  LET free == { n \in 1..(CounterLimit - 1) : n \notin existing }
  IN IF free = {}
     THEN [ counter |-> CounterLimit - 1, probes |-> CounterLimit - 1, exists |-> TRUE ]
     ELSE LET first == CHOOSE n \in free : \A m \in free : n <= m
          IN [ counter |-> first, probes |-> first, exists |-> FALSE ]

\* nestedOpenEditors.duplicate: existing are the counters of the copy names
\* that exist in the directory, copyOk and openOk whether the copy and
\* vscode.open succeed otherwise; fs.copy throws on a target that exists
Duplicate(treeItem, existing, copyOk, openOk) ==
  /\ LET sourcePath == treeItem.fsPath
         parentPath == Dirname(sourcePath)
         baseName == Basename(sourcePath)
         extension == IF treeItem.type = File THEN Extname(baseName) ELSE << >>
         stem == SubSeq(baseName, 1, Len(baseName) - Len(extension))
         found == ProbeNames(existing)
         duplicateUri == DuplicatePath(parentPath, stem, extension, found.counter)
         copied == IF treeItem.type = File THEN copyOk /\ ~found.exists
                   ELSE copyOk
         did == [ Did("duplicate") EXCEPT
                    !.element = ItemId(treeItem),
                    !.existing = existing,
                    !.probes = found.probes,
                    !.fsCalls = << FsCall("stat", duplicateUri, None, found.exists),
                                   FsCall(IF treeItem.type = File THEN "copy"
                                          ELSE "copyDirectory",
                                          sourcePath, duplicateUri, copied) >> ]
     IN IF ~copied
        THEN /\ Returns([ did EXCEPT !.messages = Error, !.failed = 1 ])
             /\ UNCHANGED << tabs, activeTextEditor >>
        ELSE IF treeItem.type = Folder
        THEN /\ RevealActiveEditorAfter([ did EXCEPT !.messages = Info ],
                                        isViewVisible, activeTextEditor)
             /\ UNCHANGED << tabs, activeTextEditor >>
        ELSE IF ~openOk
        THEN /\ Returns([ did EXCEPT !.messages = Info \o Error, !.failed = 1 ])
             /\ UNCHANGED << tabs, activeTextEditor >>
        ELSE /\ Len(OpenedTabs(duplicateUri)) <= MaxOpenTabs
             /\ tabs' = OpenedTabs(duplicateUri)
             /\ activeTextEditor' = duplicateUri
             /\ RevealActiveEditorAfter([ did EXCEPT !.messages = Info ],
                                        isViewVisible, activeTextEditor')
  /\ UNCHANGED << clipboardItem, workspaceFolders, treeViewVisible, isViewVisible,
                  initTimerPending, rendered >>

\* The items the commands are invoked on, and what the user types
CommandPaths == { Root \o << "/", "a" >>, FileAX }

CommandItems == { item \in HostItems : item.fsPath \in CommandPaths }

TypedNames == { None, << "y" >> }

\* the name typed into the rename box: nothing, a new name, the current one
RenameNames(treeItem) == TypedNames \cup { Basename(treeItem.fsPath) }

\* The directories duplicate probes, by the counters of the copy names they
\* hold: none, the first, the second but not the first, all of them
TakenNames == { {}, { 1 }, { 2 }, 1..(CounterLimit - 1) }

\* The tabs the commands start from, the last one active: a file of the tree
\* alone, or followed by a tab that has no text editor
CommandTabLists == { << TextTab(FileAX) >>, << TextTab(FileAX), WebviewTab >> }

InitCommands ==
  /\ workspaceFolders = << Root >>
  /\ tabs \in CommandTabLists
  /\ activeTextEditor = IF tabs[Len(tabs)].isText THEN tabs[Len(tabs)].fsPath ELSE None
  /\ treeViewVisible = TRUE
  /\ isViewVisible = TRUE
  /\ revealTimeout = 0
  /\ timers = {}
  /\ initTimerPending = FALSE
  /\ _cachedItems = << >>
  /\ _allItemsFlat = << >>
  /\ treeChangePending = TRUE
  /\ rendered = << >>
  /\ clipboardItem = None
  /\ last = Did("initialVisibility")

NextCommands ==
  \/ GetChildren
  \/ \E treeItem \in CommandItems :
       \/ Cut(treeItem)
       \/ Copy(treeItem)
       \/ \E newName \in RenameNames(treeItem), ok \in BOOLEAN : Rename(treeItem, newName, ok)
       \/ \E confirmed \in BOOLEAN, ok \in BOOLEAN : Delete(treeItem, confirmed, ok)
       \/ \E ok \in BOOLEAN : Paste(treeItem, ok)
       \/ \E fileName \in TypedNames, writeOk \in BOOLEAN, openOk \in BOOLEAN :
            NewFile(treeItem, fileName, writeOk, openOk)
       \/ \E folderName \in TypedNames, ok \in BOOLEAN : NewFolder(treeItem, folderName, ok)
       \/ \E existing \in TakenNames, copyOk \in BOOLEAN, openOk \in BOOLEAN :
            Duplicate(treeItem, existing, copyOk, openOk)

SpecCommands == InitCommands /\ [][NextCommands]_vars

(***************************************************************************)
(* Properties of the built forest.                                         *)
(***************************************************************************)
\* The last handler ran the Tree Builder: the cache is the build of tabs
Built == last.builds = 1

\* p lies inside the directory root, by path segments
Inside(p, root) ==
  \/ root = << "/" >> /\ p # root
  \/ /\ StartsWith(p, root)
     /\ Len(p) > Len(root)
     /\ p[Len(root) + 1] = "/"

\* The directories strictly between root and the path p inside it
RECURSIVE Between(_, _)
Between(p, root) ==
  IF Dirname(p) = root \/ Dirname(p) = p THEN {}
  ELSE { Dirname(p) } \cup Between(Dirname(p), root)

NodesOf(forest) == addItemsRecursively(forest)

Occurrences(forest, type, p) ==
  Cardinality({ i \in 1..Len(NodesOf(forest)) :
                  ItemId(NodesOf(forest)[i]) = << type, p >> })

\* the folder of path dir has a child of that type and path
HasChild(forest, dir, type, p) ==
  \E i \in 1..Len(NodesOf(forest)) :
    /\ ItemId(NodesOf(forest)[i]) = << Folder, dir >>
    /\ \E k \in 1..Len(NodesOf(forest)[i].children) :
         ItemId(NodesOf(forest)[i].children[k]) = << type, p >>

AtRootLevel(forest, type, p) ==
  \E k \in 1..Len(forest) : ItemId(forest[k]) = << type, p >>

DistinctFileTabs ==
  \A i, j \in 1..Len(tabs) :
    (i # j /\ IsFileTab(tabs[i]) /\ IsFileTab(tabs[j])) => tabs[i].fsPath # tabs[j].fsPath

\* C2: in every forest getOpenEditors produces no two nodes have the same
\* (kind, path), that is the same TreeItem id, whatever tabs are open.
C2_UniqueIds ==
  Built =>
    \A i, j \in 1..Len(_allItemsFlat) :
      i # j => ItemId(_allItemsFlat[i]) # ItemId(_allItemsFlat[j])

C8_OrderIndependent ==
  ~treeChangePending =>
    /\ BuildForest(tabs) = _cachedItems
    /\ addItemsRecursively(BuildForest(tabs)) = _allItemsFlat

C8_Witness ==
  /\ ~treeChangePending
  /\ last.op = "tabs"
  /\ workspaceFolders = << Root >>
  /\ tabs = << TextTab(FileABY), TextTab(FileX), TextTab(FileABX) >>
  /\ Len(_cachedItems) = 2

\* a before b in a sorted sibling list
InOrder(a, b) ==
  \/ a.type = Folder /\ b.type = File
  \/ a.type = b.type /\ LocaleCompare(a.fsPath, b.fsPath) <= 0

RECURSIVE SortedLevels(_)
SortedLevels(items) ==
  /\ \A k \in 1..(Len(items) - 1) : InOrder(items[k], items[k + 1])
  /\ \A k \in 1..Len(items) : SortedLevels(items[k].children)

\* C9: after every build every sibling list, at every depth, has its folders
\* before its files and, within a kind, ascends by full path.
C9_SiblingsSorted == Built => SortedLevels(_cachedItems)

\* the tabs insert a file before a folder at the root and under /r/a, and
\* y before x under /r/a/b
C9_Witness ==
  /\ Built
  /\ workspaceFolders = << Root >>
  /\ tabs = << TextTab(FileX), TextTab(FileAX), TextTab(FileABY) >>
  /\ _cachedItems[1].type = Folder
  /\ _cachedItems[1].children[1].type = Folder

SyncNotifications ==
  { "tabs", "tabsClose", "tabGroups", "openTextDocument", "visibleTextEditors",
    "viewColumn" }

\* C1: with the view visible, after a tab, tab group, document, visible
\* editors or view column notification the tree is synchronized with the tabs:
\* the change event is fired and not yet served, so that the host reads the
\* build of the current tabs next, or the forest the host shows is that build
\* already; in particular a closed file does not stay in the tree.
C1_TreeSynchronized ==
  (isViewVisible /\ treeViewVisible /\ last.op \in SyncNotifications) =>
    \/ treeChangePending
    \/ rendered = BuildForest(tabs)

\* C4: a revealActiveEditor call that schedules a reveal while the timer of an
\* earlier call is still pending cancels that timer, which never fires, and
\* leaves exactly one timer, capturing the editor active at this second call;
\* the timer that fires with the view visible makes one lookup, of the uri it
\* captured, and reveals the item of that uri or nothing.
C4_RevealDebounce ==
  [][ /\ (revealTimeout # 0 /\ last'.scheduled = 1) =>
           /\ revealTimeout' # revealTimeout
           /\ timers' = { [ id |-> revealTimeout', activeUri |-> activeTextEditor' ] }
      /\ (last'.op = "revealTimer" /\ isViewVisible) =>
           \E t \in timers :
             /\ t.id = revealTimeout
             /\ timers' = timers \ { t }
             /\ last'.lookup = t.activeUri
             /\ last'.revealed \in { None, << File, t.activeUri >> }
             /\ (t.activeUri \in OpenPaths(tabs) /\ Inside(t.activeUri, Root))
                  => last'.revealed = << File, t.activeUri >>
    ]_vars

\* the second call, made for another editor while the first timer is pending
C4_Witness ==
  /\ revealTimeout = 2
  /\ timers = { [ id |-> 2, activeUri |-> FileAX ] }
  /\ last.op = "activeTextEditor"
  /\ last.scheduled = 1

\* C5: a revealActiveEditor call made while the view is hidden performs no
\* refresh and no build and leaves no reveal timer pending, and a change of
\* the view to visible performs exactly one refresh and schedules exactly one
\* reveal.
C5_VisibilityGating ==
  /\ (last.called = 1 /\ ~isViewVisible) =>
       /\ last.refreshes = 0
       /\ last.builds = 0
       /\ timers = {}
  /\ (last.op = "visibility" /\ isViewVisible) =>
       /\ last.refreshes = 1
       /\ last.scheduled = 1
       /\ Cardinality(timers) = 1

\* C6 as claimed: right after the visibility handler ran for a hidden view no
\* reveal timer is pending and revealTimeout is cleared, and no refresh is
\* performed while the view is hidden.
C6_HiddenCancelsTimer ==
  /\ (last.op = "visibility" /\ ~isViewVisible) => (revealTimeout = 0 /\ timers = {})
  /\ ~isViewVisible => last.refreshes = 0

\* C6 as amended: the visibility handler of a view that became hidden cancels
\* nothing and refreshes nothing, the pending timer and revealTimeout are as
\* before it; the timer is disarmed instead: when it fires with the view
\* hidden it makes no build, no lookup and no reveal and clears revealTimeout;
\* and no handler refreshes while the view is hidden.
C6_HiddenDisarmsTimer ==
  [][ /\ (last'.op = "visibility" /\ ~isViewVisible') =>
           /\ timers' = timers
           /\ revealTimeout' = revealTimeout
           /\ _cachedItems' = _cachedItems
           /\ _allItemsFlat' = _allItemsFlat
           /\ treeChangePending' = treeChangePending
      /\ (last'.op = "revealTimer" /\ ~isViewVisible) =>
           /\ revealTimeout' = 0
           /\ last'.builds = 0
           /\ last'.lookup = None
           /\ last'.revealed = None
           /\ _cachedItems' = _cachedItems
      /\ ~isViewVisible' => last'.refreshes = 0
    ]_vars

\* the view was hidden while a reveal timer was pending: it still is
C6_Witness ==
  /\ last.op = "visibility"
  /\ ~isViewVisible
  /\ revealTimeout # 0
  /\ timers = { [ id |-> revealTimeout, activeUri |-> FileX ] }

\* C7: at most one reveal timer is outstanding in every state, the one
\* revealTimeout names, and every revealActiveEditor call cancels the timer
\* that was pending when it was made: reveals are never queued.
C7_SingleTimer ==
  /\ [](/\ Cardinality(timers) <= 1
        /\ \A t \in timers : t.id = revealTimeout
        /\ revealTimeout # 0 => timers # {})
  /\ [][ last'.called = 1 => timers \cap timers' = {} ]_vars

\* a call superseded a pending timer
C7_Witness ==
  /\ last.called = 1
  /\ revealTimeout = 2
  /\ Cardinality(timers) = 1

(***************************************************************************)
(* Properties of the forest in workspaces of several roots.                *)
(***************************************************************************)
WorkspaceRoots == { workspaceFolders[i] : i \in 1..Len(workspaceFolders) }

\* C11: every node of the forest and of the flat index has a path inside some
\* workspace root by path segments: no file outside all roots and no folder
\* that is not a descendant of a root is in the forest or in the index.
C11_NodesInsideRoots ==
  Built =>
    \A i \in 1..Len(_allItemsFlat) :
      \E root \in WorkspaceRoots : Inside(_allItemsFlat[i].fsPath, root)

\* C12: a file whose directory is a workspace root is at the root level of the
\* forest, and no Folder node has the path of a workspace root, whatever the
\* number and the order of the roots.
C12_NoRootFolder ==
  Built =>
    /\ \A p \in OpenPaths(tabs) :
         (FindWorkspaceFolder(p) # None /\ Dirname(p) \in WorkspaceRoots)
           => AtRootLevel(_cachedItems, File, p)
    /\ \A i \in 1..Len(_allItemsFlat) :
         _allItemsFlat[i].type = Folder => _allItemsFlat[i].fsPath \notin WorkspaceRoots

\* C13: on every built forest getParent agrees with getChildren: getParent of
\* a node of the root list is none, getParent of a child of a folder is that
\* folder, and the directory of a child is the path of its parent, for any
\* number of workspace roots.
C13_ParentOfChild ==
  Built =>
    /\ \A k \in 1..Len(_cachedItems) : getParent(_cachedItems[k]) = None
    /\ \A i \in 1..Len(_allItemsFlat) :
         \A k \in 1..Len(_allItemsFlat[i].children) :
           /\ getParent(_allItemsFlat[i].children[k]) = _allItemsFlat[i]
           /\ Dirname(_allItemsFlat[i].children[k].fsPath) = _allItemsFlat[i].fsPath

(***************************************************************************)
(* Properties of the Node Index and of the drag and drop controller.       *)
(***************************************************************************)
\* the index the Tree Builder gives on the current tab list
FreshIndex == addItemsRecursively(BuildForest(tabs))

IdOrNone(item) == IF item = None THEN None ELSE ItemId(item)

\* C14: every access to the index runs the Tree Builder first when the index
\* is invalid, so it answers as from the index of the current tab list: the
\* lookup of the reveal timer, getParent of a file, and the lookup of the
\* folder of the file a drop targets.
C14_LazyIndex ==
  [][ /\ (last'.op = "revealTimer" /\ last'.lookup # None) =>
           last'.revealed = IdOrNone(FindItem(FreshIndex, last'.lookup))
      /\ (last'.op = "getParent" /\ last'.element[1] = File) =>
           last'.parent = IdOrNone(FindFolder(FreshIndex, Dirname(last'.element[2])))
      /\ (/\ last'.op = "handleDrop"
          /\ last'.dragged # << >>
          /\ last'.element # None
          /\ last'.element[1] = File) =>
           last'.parent = IdOrNone(FindFolder(FreshIndex, Dirname(last'.element[2])))
    ]_vars

RECURSIVE NodeCount(_)
NodeCount(items) ==
  IF items = << >> THEN 0
  ELSE 1 + NodeCount(Head(items).children) + NodeCount(Tail(items))

C18_RevealMissSilent ==
  (/\ last.op = "revealTimer"
   /\ last.lookup # None
   /\ FindItem(_allItemsFlat, last.lookup) = None)
  => /\ last.revealed = None
     /\ last.messages = << >>
     /\ last.failed = 0
     /\ revealTimeout = 0
     /\ timers = {}

\* the active editor shows a file outside the workspace root
C18_Witness ==
  /\ last.op = "revealTimer"
  /\ last.lookup = FileCX
  /\ last.revealed = None
  /\ tabs = << TextTab(FileCX) >>

\* C19: a drop of one folder onto a resolved target folder is refused, with the
\* warning and no file-system call, exactly when the target is the dragged
\* folder or lies inside it by path segments.
C19_RefusedIffInside ==
  (/\ last.op = "handleDrop"
   /\ Len(last.dragged) = 1
   /\ last.dragged[1].type = Folder
   /\ last.parent # None)
  => ((last.messages = << Message("warnSelf", None) >> /\ last.fsCalls = << >>)
        <=> \/ last.parent[2] = last.dragged[1].uri
            \/ Inside(last.parent[2], last.dragged[1].uri))

\* C20 as claimed: the handler that runs the Tree Builder fires the change
\* event after the build.
C20_FiredAfterRebuild == last.builds = 1 => last.refreshes = 1

\* C20 as amended: the change event is fired by refresh(), right after the
\* cache is emptied and before any rebuild, and by nothing else; a run of the
\* Tree Builder fires no event: the getChildren of the host serves the pending
\* event and a lazy build leaves it as it was.
C20_FiredOnRefresh ==
  [][ /\ last'.refreshes = 1 =>
           /\ treeChangePending'
           /\ _cachedItems' = << >>
           /\ _allItemsFlat' = << >>
           /\ last'.builds = 0
      /\ last'.builds = 1 =>
           /\ last'.refreshes = 0
           /\ treeChangePending' = (IF last'.op = "getChildren" THEN FALSE
                                    ELSE treeChangePending)
      /\ (treeChangePending' /\ ~treeChangePending) => last'.refreshes = 1
    ]_vars

\* the host read a forest of three roots and no event is pending after the build
C20_Witness ==
  /\ last.op = "getChildren"
  /\ last.builds = 1
  /\ Len(_cachedItems) = 3
  /\ ~treeChangePending

(***************************************************************************)
(* Properties of the file commands.                                        *)
(***************************************************************************)
FileCommands == { "rename", "delete", "paste", "newFile", "newFolder", "duplicate" }

\* the last handler called the file system and showed no error
CommandSucceeded ==
  /\ last.op \in FileCommands
  /\ last.fsCalls # << >>
  /\ last.failed = 0

\* C16: after a successful file command, with the view visible, the cached
\* forest and the index are empty and the change event is fired, so that the
\* host reads the tree again.
C16_SuccessRequestsSync ==
  (CommandSucceeded /\ isViewVisible) =>
    /\ last.refreshes = 1
    /\ treeChangePending
    /\ _cachedItems = << >>
    /\ _allItemsFlat = << >>

ShowsError(did) == \E i \in DOMAIN did.messages : did.messages[i].show = "error"

\* C17: a file command that fails shows an error notification and leaves the
\* cached forest, the index, the pending change event, the reveal timers and
\* the clipboard as they were.
C17_FailureKeepsState ==
  [][ (last'.op \in FileCommands /\ last'.failed = 1) =>
        /\ ShowsError(last')
        /\ last'.refreshes = 0
        /\ last'.scheduled = 0
        /\ UNCHANGED << _cachedItems, _allItemsFlat, treeChangePending, timers,
                        revealTimeout, clipboardItem >>
    ]_vars

\* the rename of a cut item onto a folder of the built tree threw: the item is
\* still on the clipboard and the forest is still cached
C17_Witness ==
  /\ last.op = "paste"
  /\ last.failed = 1
  /\ Len(last.fsCalls) = 1
  /\ last.fsCalls[1].call = "rename"
  /\ ~last.fsCalls[1].ok
  /\ clipboardItem # None
  /\ clipboardItem.operation = "cut"
  /\ _cachedItems # << >>
  /\ ~treeChangePending

(***************************************************************************)
(* Termination of the ancestor walk and shape of the objects of a build.   *)
(***************************************************************************)
\* the objects getOpenEditors creates on the current tab list
CurrentBuild == ProcessTabs(EmptyBuild, tabs)

\* the number of segments of an absolute path, the filesystem root counted
Segments(p) == Cardinality({ i \in 1..Len(p) : p[i] = "/" }) + 1

\* the segments of the file tabs of a tab list, added up
RECURSIVE SumSegments(_)
SumSegments(allTabs) ==
  IF allTabs = << >> THEN 0
  ELSE (IF IsFileTab(Head(allTabs)) THEN Segments(Head(allTabs).fsPath) ELSE 0)
         + SumSegments(Tail(allTabs))

\* The walk of getOrCreateFolderHierarchy from folderPath returns within fuel
\* recursive calls, the folder cache left out (a hit only returns sooner)
RECURSIVE WalkStops(_, _)
WalkStops(folderPath, fuel) ==
  LET workspaceFolder == FindWorkspaceFolder(folderPath)
      parentPath == Dirname(folderPath)
  IN IF workspaceFolder = None THEN TRUE
     ELSE IF folderPath = workspaceFolder \/ parentPath = workspaceFolder THEN TRUE
     ELSE IF parentPath = folderPath THEN TRUE
     ELSE fuel > 0 /\ WalkStops(parentPath, fuel - 1)

ChildrenOf(b, i) == { b.nodes[i].children[k] : k \in 1..Len(b.nodes[i].children) }

\* the items reached from the items of S through at most fuel children lists
RECURSIVE Reached(_, _, _)
Reached(b, S, fuel) ==
  IF fuel = 0 \/ S = {} THEN S
  ELSE S \cup Reached(b, UNION { ChildrenOf(b, i) : i \in S }, fuel - 1)

\* the places an item is held at: positions of children lists and of rootItems
Holders(b, i) ==
  { << j, k >> \in (1..Len(b.nodes)) \X (1..Len(b.nodes)) :
      k <= Len(b.nodes[j].children) /\ b.nodes[j].children[k] = i }
    \cup { << 0, k >> : k \in { m \in 1..Len(b.rootItems) : b.rootItems[m] = i } }

\* C21: for every tab list and every workspace the ancestor walk from the
\* directory of each open file returns within as many calls as the path has
\* segments, the build creates at most one item per segment of each open file,
\* no item is reached from its own children, and no item is held twice (in two
\* children lists, twice in one, or in a children list and in rootItems).
C21_FiniteAcyclicForest ==
  LET b == CurrentBuild
  IN /\ \A p \in OpenPaths(tabs) : WalkStops(Dirname(p), Segments(p))
     /\ Len(b.nodes) <= SumSegments(tabs)
     /\ \A i \in 1..Len(b.nodes) :
          /\ i \notin Reached(b, ChildrenOf(b, i), Len(b.nodes))
          /\ Cardinality(Holders(b, i)) <= 1

\* the host read a build whose walk from /rb went up to the filesystem root,
\* outside the workspace, and whose walk from /r/a/b stopped under the root
C21_Witness ==
  /\ Built
  /\ workspaceFolders = << Root >>
  /\ tabs = << TextTab(FileRbX), TextTab(FileABX) >>
  /\ Len(CurrentBuild.nodes) = 6
  /\ Len(CurrentBuild.rootItems) = 1
  /\ Len(_allItemsFlat) = 3

\* C22: after a build, every open file that lies inside some workspace root by
\* path segments is a File node of the forest, whatever the order of the roots
\* and also when the path of one root is a string prefix of the name of another.
C22_FilesOfEveryRoot ==
  Built =>
    \A p \in OpenPaths(tabs) :
      (\E root \in WorkspaceRoots : Inside(p, root)) =>
        Occurrences(_cachedItems, File, p) >= 1

(***************************************************************************)
(* The reveal timer and the visibility of the view of the host.            *)
(***************************************************************************)
\* C23: treeView.reveal is called only while the view of the host is visible,
\* and a reveal timer that fires while that view is hidden looks nothing up,
\* builds nothing, reveals nothing and leaves revealTimeout cleared and no
\* timer pending, under every interleaving of the handlers.
C23_NoRevealWhileHidden ==
  [][ /\ last'.revealed # None => (treeViewVisible /\ treeViewVisible')
      /\ (last'.op = "revealTimer" /\ ~treeViewVisible) =>
           /\ last'.lookup = None
           /\ last'.revealed = None
           /\ last'.builds = 0
           /\ revealTimeout' = 0
           /\ timers' = {}
    ]_vars

\* the timer scheduled for /r/a/x fired after the view was hidden, with the
\* file still open and active
C23_Witness ==
  /\ last.op = "revealTimer"
  /\ ~treeViewVisible
  /\ ~initTimerPending
  /\ activeTextEditor = FileAX
  /\ last.lookup = None
  /\ revealTimeout = 0
  /\ timers = {}

(***************************************************************************)
(* Lookups and the validity of the cache.                                  *)
(***************************************************************************)
\* C24: the lookup of the reveal timer (findItemByUri, through getAllItems)
\* runs the Tree Builder exactly when refresh() has emptied the cache since
\* the last build, that is when the change event is still pending: after the
\* host has read the tree a lookup builds nothing, also when the forest the
\* host read is empty.
C24_BuildOnlyWhenInvalid ==
  [][ (last'.op = "revealTimer" /\ last'.lookup # None) =>
        (last'.builds = 1 <=> treeChangePending)
    ]_vars

(***************************************************************************)
(* The clipboard of cut, copy and paste.                                   *)
(***************************************************************************)
\* C25: a paste with nothing on the clipboard, or onto an item that is not a
\* Folder, calls no file system and leaves the clipboard as it was; a paste
\* that succeeds after a cut renames the source into the target folder and
\* empties the clipboard, and the paste right after it warns and does nothing;
\* a paste that succeeds after a copy copies the source and keeps the item;
\* every cut and copy puts its item on the clipboard in place of the old one.
C25_ClipboardMachine ==
  [][ /\ (last'.op = "paste" /\ (clipboardItem = None \/ last'.element[1] # Folder)) =>
           /\ last'.fsCalls = << >>
           /\ last'.messages = Warning
           /\ clipboardItem' = clipboardItem
      /\ (/\ last'.op = "paste"
          /\ clipboardItem # None
          /\ last'.element[1] = Folder
          /\ last'.failed = 0) =>
           LET target == Join(last'.element[2], Basename(clipboardItem.uri))
           IN IF clipboardItem.operation = "cut"
              THEN /\ last'.fsCalls = << FsCall("rename", clipboardItem.uri, target, TRUE) >>
                   /\ clipboardItem' = None
              ELSE /\ last'.fsCalls = << FsCall("copy", clipboardItem.uri, target, TRUE) >>
                   /\ clipboardItem' = clipboardItem
      /\ (/\ last.op = "paste"
          /\ last.failed = 0
          /\ last.fsCalls # << >>
          /\ last.fsCalls[1].call = "rename"
          /\ last'.op = "paste") =>
           /\ last'.fsCalls = << >>
           /\ last'.messages = Warning
      /\ last'.op \in { "cut", "copy" } =>
           clipboardItem' = [ uri |-> last'.element[2], operation |-> last'.op ]
    ]_vars

\* the cut file /r/a/x was pasted into the folder /r/a of the built tree: the
\* rename was issued and succeeded and the clipboard is empty
C25_Witness ==
  /\ last.op = "paste"
  /\ last.element = << Folder, Root \o << "/", "a" >> >>
  /\ last.failed = 0
  /\ last.fsCalls = << FsCall("rename", FileAX, FileAX, TRUE) >>
  /\ clipboardItem = None
  /\ rendered # << >>

(***************************************************************************)
(* The name search of duplicate.                                           *)
(***************************************************************************)
\* C26: duplicate makes at most 99 stat probes and issues its copy onto the
\* name the last probe was made for, which stat did not find and which is the
\* first name of the sequence 'N (copy)E', 'N (copy 2)E', ... that the directory
\* does not hold, whatever names the directory holds.
C26_CopyToFirstFreeName ==
  last.op = "duplicate" =>
    LET stat == last.fsCalls[1]
        copy == last.fsCalls[2]
        baseName == Basename(copy.from)
        extension == IF last.element[1] = File THEN Extname(baseName) ELSE << >>
        stem == SubSeq(baseName, 1, Len(baseName) - Len(extension))
        free == { n \in 1..CounterLimit : n \notin last.existing }
        first == CHOOSE n \in free : \A m \in free : n <= m
    IN /\ last.probes <= CounterLimit - 1
       /\ copy.to = stat.from
       /\ ~stat.ok
       /\ copy.to = DuplicatePath(Dirname(copy.from), stem, extension, first)

(***************************************************************************)
(* The drag and drop controller.                                           *)
(***************************************************************************)
\* the target resolution of a drop, as the step of handleDrop shows it
DropResolvesTarget ==
  [][ last'.op = "handleDrop" =>
        /\ last'.dragged = << >> =>
             /\ last'.fsCalls = << >>
             /\ last'.messages = << >>
             /\ last'.refreshes = 0
             /\ UNCHANGED << _cachedItems, _allItemsFlat, treeChangePending >>
        /\ (last'.dragged # << >> /\ last'.element = None) =>
             /\ last'.messages = << Message("warnRoot", None) >>
             /\ last'.fsCalls = << >>
             /\ last'.refreshes = 0
        /\ (last'.dragged # << >> /\ last'.element # None /\ last'.element[1] = Folder) =>
             last'.parent = last'.element
        /\ (last'.dragged # << >> /\ last'.element # None /\ last'.element[1] = File) =>
             last'.parent = IdOrNone(FindFolder(_allItemsFlat, Dirname(last'.element[2])))
        /\ (last'.dragged # << >> /\ last'.element # None /\ last'.parent = None) =>
             /\ last'.messages = << Message("errorTarget", None) >>
             /\ last'.fsCalls = << >>
             /\ last'.refreshes = 0
    ]_vars

\* every drop whose items were processed ends with one refresh()
DropRefreshesOnce ==
  [][ (last'.op = "handleDrop" /\ last'.dragged # << >> /\ last'.parent # None) =>
        /\ last'.refreshes = 1
        /\ _cachedItems' = << >>
        /\ _allItemsFlat' = << >>
        /\ treeChangePending'
    ]_vars

\* C27: a drop of nothing moves nothing and refreshes nothing; a drop on no
\* target is refused with a warning; a drop on a Folder uses it; a drop on a
\* File uses the Folder node of its directory in the index as it is, and is
\* refused with an error when there is none; and every drop whose items were
\* processed calls refresh() once at the end.
C27_DropTargetAndRefresh == DropResolvesTarget /\ DropRefreshesOnce

\* the positions of a sequence whose element is in the set S
Positions(seq, S) == { i \in 1..Len(seq) : seq[i] \in S }

\* C28: in every drop, each rename comes right after the stat of its target,
\* a rename onto a target stat found is made only after the answer yes to the
\* overwrite prompt and never after the answer no, a dragged item that is not
\* open is passed to moveFileToFolder only after the answer 'move' (after
\* 'open' it is opened and not moved, after the cancellation nothing is done),
\* every rename that fails is reported, and unless a call threw out of the
\* drop every dragged item is processed, also after a failed rename.
C28_MoveOnlyWithConsent ==
  [][ (last'.op = "handleDrop" /\ last'.parent # None /\ last'.dragged # << >>) =>
        LET calls == last'.fsCalls
            shown == last'.messages
            dragged == last'.dragged
            renames == { k \in 1..Len(calls) : calls[k].call = "rename" }
            stats == { k \in 1..Len(calls) : calls[k].call = "stat" }
            asked(answer) == Positions(shown, { Message("askOverwrite", answer) })
            chose(action) == Positions(shown, { Message("askOpenOrMove", action) })
            refused == Positions(shown, { Message("warnSelf", None) })
            open == { i \in 1..Len(dragged) :
                        /\ isFileOpenInEditor(tabs, dragged[i].uri)
                        /\ ~(dragged[i].type = Folder
                             /\ StartsWith(last'.parent[2], dragged[i].uri)) }
        IN /\ renames \cup stats = 1..Len(calls)
           /\ \A k \in renames :
                /\ k - 1 \in stats
                /\ calls[k - 1].from = calls[k].to
                /\ calls[k].to = Join(last'.parent[2], Basename(calls[k].from))
                /\ \E i \in 1..Len(dragged) : dragged[i].uri = calls[k].from
           /\ Cardinality({ k \in stats : calls[k].ok })
                = Cardinality(asked("yes")) + Cardinality(asked("no"))
           /\ Cardinality({ k \in renames : calls[k - 1].ok }) = Cardinality(asked("yes"))
           /\ last'.failed = 0 =>
                /\ Cardinality(stats) = Cardinality(open) + Cardinality(chose("move"))
                /\ Cardinality(refused) + Cardinality(open) + Cardinality(chose("move"))
                     + Cardinality(chose("open")) + Cardinality(chose("cancel"))
                     = Len(dragged)
                /\ Len(tabs') = Len(tabs) + Cardinality(chose("open"))
           /\ Cardinality(stats) <= Cardinality(open) + Cardinality(chose("move"))
           /\ Cardinality({ k \in renames : ~calls[k].ok })
                = Cardinality(Positions(shown, { Message("errorMove", None) }))
           /\ Cardinality({ k \in renames : calls[k].ok })
                = Cardinality(Positions(shown, { Message("infoMoved", None) }))
    ]_vars

\* two files were dropped on the folder /r/a: the rename of the open one
\* failed and was reported, and the other one, not open, was moved over the
\* file of its name after the answers 'move' and yes
C28_Witness ==
  /\ last.op = "handleDrop"
  /\ last.parent = << Folder, Root \o << "/", "a" >> >>
  /\ last.dragged = << DragItem(FileABX, File), DragItem(FileABY, File) >>
  /\ last.messages = << Message("errorMove", None), Message("askOpenOrMove", "move"),
                        Message("askOverwrite", "yes"), Message("infoMoved", None) >>
  /\ Len(last.fsCalls) = 4
  /\ ~last.fsCalls[2].ok
  /\ last.fsCalls[3].ok
  /\ last.fsCalls[4] = FsCall("rename", FileABY, Root \o << "/", "a", "/", "y" >>, TRUE)
  /\ last.refreshes = 1

====
